---- MODULE Spec2Model ----
(***************************************************************************)
(* ChromaDesk: the entry point main() of chromadesk/main.py.               *)
(*                                                                         *)
(* One invocation of main() handles one mode.  The headless mode is the    *)
(* daily update pipeline: load the configuration, fetch the Bing metadata, *)
(* decide freshness against the wall-clock date, download or reuse the     *)
(* image, set the wallpaper, record the date, prune the history, notify.   *)
(* The headless run is modelled statement by statement (pc is the position *)
(* in main); every call into chromadesk.core returns a truthy value, a     *)
(* falsy value, or raises, and main's own try/except decides what follows. *)
(* Invocations do not overlap: a new one starts when pc = "idle", parses    *)
(* its command line (pc = "dispatch") and takes one branch of main.        *)
(***************************************************************************)
EXTENDS Integers, Sequences, FiniteSets, TLC

(***************************************************************************)
(* Bounds of the model.                                                    *)
(***************************************************************************)
\* Wall-clock days are 1..MaxDay; the fetched image's date ranges over the same days.
MaxDay == 2
\* Largest keep_history value stored as a valid integer.
MaxKeep == 1

(***************************************************************************)
(* Program constants.                                                      *)
(***************************************************************************)
\* config.getint("Settings", "keep_history", fallback=7)
KeepDefault == 7

(***************************************************************************)
(* Values.                                                                 *)
(***************************************************************************)
Days == 1..MaxDay

\* A stored last_update_date: 0 is the empty string (the fallback ""), d > 0 is
\* the ISO string of day d.  date.isoformat() is injective, so string equality
\* of two ISO dates is equality of the days.
NoDate == 0
DateValues == {NoDate} \cup Days

\* The raw text of the option Settings.enabled in the configuration file.
EnabledValues == {"absent", "true", "false", "invalid"}

\* The raw text of the option Settings.keep_history.
KeepValues ==
    {[kind |-> "absent", val |-> 0], [kind |-> "invalid", val |-> 0]}
        \cup {[kind |-> "int", val |-> k] : k \in 0..MaxKeep}

\* What a call into chromadesk.core can do: return truthy, return falsy, raise.
Outcomes == {"ok", "fail", "raise"}

\* A file of the wallpaper directory is named by the (date, url) it was derived from.
NoPath == <<>>
Urls == {"https://x/img.jpg"}
NoUrl == ""
Filenames == Days \X Urls

\* The result of fetch_bing_wallpaper_info: None, or a dict whose "full_url"
\* may be missing or empty (NoUrl) and whose "date" may be missing (NoDate).
\* The date of a dict without full_url is never read and is left out.
NoneInfo == [some |-> FALSE, date |-> NoDate, full_url |-> NoUrl]
BingInfos ==
    {NoneInfo, [some |-> TRUE, date |-> NoDate, full_url |-> NoUrl]} \cup
    {[some |-> TRUE, date |-> d, full_url |-> u] : d \in DateValues, u \in Urls}

\* The configuration as load_config() returns it (a snapshot of the store).
NoConfig == [enabled |-> "absent", last_update_date |-> NoDate,
             keep_history |-> [kind |-> "absent", val |-> 0]]

\* The command line: the four flags the parser of parse_args defines.
\* No value returned: no invocation yet, or the headless run is still going.
NoExit == 0 - 1

\* No command line yet (the program has not been invoked).
NoArgs == [gui |-> FALSE, headless |-> FALSE, version |-> FALSE,
           internal_set_config |-> FALSE]

ArgSets == [gui : BOOLEAN, headless : BOOLEAN, version : BOOLEAN,
            internal_set_config : BOOLEAN]

VARIABLES
    store,        \* the configuration file: enabled, last_update_date, keep_history
    files,        \* the wallpaper directory: filenames, oldest modification first
    today,        \* the wall clock's date
    mode,         \* the mode the latest invocation of main handled
    argv,         \* the command line of the latest invocation, as argparse reads it;
                  \* dropped when the headless branch is entered, which reads it no more
    exit_code,    \* the value the latest invocation returned, NoExit until it returns
    pc,           \* position of the running headless invocation in main
    config,       \* main's local: the loaded configuration
    bing_info,    \* main's local
    today_str,    \* main's local
    save_path,    \* main's local
    keep_count,   \* main's local
    success,      \* main's local
    calls,        \* the calls this headless run made, in order, with their outcome
    applied,      \* the path this run passed to set_gnome_wallpaper
    crossed,      \* whether the wall clock's date changed since this headless run started
    prev          \* summary of the invocation before this one, when it was a headless
                  \* run made entirely on the wall clock's present date

env == <<store, files, today>>
locals == <<config, bing_info, today_str, save_path, keep_count, success>>
trace == <<calls, applied, crossed, prev>>
vars == <<store, files, today, mode, argv, exit_code, pc, config, bing_info, today_str,
          save_path, keep_count, success, calls, applied, crossed, prev>>

(***************************************************************************)
(* Helpers.                                                                *)
(***************************************************************************)
Call(fn, res) == [fn |-> fn, res |-> res]

\* Number of calls of fn in a call sequence.
Count(cs, fn) == Cardinality({i \in DOMAIN cs : cs[i].fn = fn})

Called(cs, fn) == \E i \in DOMAIN cs : cs[i].fn = fn

CalledWith(cs, fn, res) == \E i \in DOMAIN cs : cs[i] = Call(fn, res)

InSeq(s, x) == \E i \in DOMAIN s : s[i] = x

\* What is remembered of a finished headless run: what it read and fetched,
\* how often it downloaded and applied, whether its write of last_update_date
\* took effect, whether it stopped at the freshness check, its verdict.
NoPrev == [valid |-> FALSE, enabled |-> "absent", bing_info |-> NoneInfo,
           downloads |-> 0, applies |-> 0, recorded |-> FALSE, fresh |-> FALSE,
           success |-> FALSE]

\* parse_args, lines 62-69: with none of the three other modes requested, gui is set.
ParseArgs(args) ==
    IF ~args.headless /\ ~args.version /\ ~args.internal_set_config
    THEN [args EXCEPT !.gui = TRUE]
    ELSE args

\* Mutant: the --gui branch is tested first.
DispatchGuiFirst(args) ==
    IF args.gui THEN "gui"
    ELSE IF args.internal_set_config THEN "internal_set_config"
    ELSE IF args.version THEN "version"
    ELSE IF args.headless THEN "headless"
    ELSE "none"
\* The if/elif chain of main (lines 77, 106, 115, 245): the first mode that matches.
Dispatch(args) ==
    IF args.internal_set_config THEN "internal_set_config"
    ELSE IF args.version THEN "version"
    ELSE IF args.headless THEN "headless"
    ELSE IF args.gui THEN "gui"
    ELSE "none"

\* config.getboolean("Settings", "enabled", fallback=False): a missing option
\* gives the fallback, a value that is no boolean word raises ValueError.
EnabledRaises(cfg) == cfg.enabled = "invalid"
\* Mutant: the fallback of getboolean is True.
EnabledIsTrueFallbackTrue(cfg) == cfg.enabled \in {"true", "absent"}
EnabledIsTrue(cfg) == cfg.enabled = "true"

\* Mutant: the fetched metadata is not tested.
BingInfoValidUnchecked(info) == TRUE
\* `bing_info and bing_info.get("full_url")`, line 147.
BingInfoValid(info) == info.some /\ info.full_url # NoUrl

\* Mutant: the stored string is compared with the date object, never equal.
AlreadyUpdatedTodayDateObject(last_update_date, t) == FALSE
\* `last_update_date == today_str`, line 157.
AlreadyUpdatedToday(last_update_date, t) == last_update_date = t

\* history.get_bing_filename(date, full_url): the same pair gives the same name,
\* different pairs give different names.
get_bing_filename(date, full_url) == <<date, full_url>>

\* The files cleanup_wallpaper_history(keep) is to delete: all but the `keep`
\* most recently modified; nothing when keep <= 0.
PruneVictims(fs, keep) ==
    IF keep <= 0 \/ Len(fs) <= keep THEN {}
    ELSE {fs[i] : i \in 1..(Len(fs) - keep)}

\* The directory without the files of D, order kept.
Without(fs, D) == SelectSeq(fs, LAMBDA f : f \notin D)

\* downloader.download_image(url, save_path): a successful download leaves the
\* file at save_path, the newest of the directory; a failed one leaves no file there.
download_image(fs, path, res) == IF res = "ok" THEN Append(fs, path) ELSE fs

\* Mutant: the existence check is skipped, every run downloads.
IsFileNever(fs, path) == FALSE
\* `save_path.is_file()`, line 178.
IsFile(fs, path) == InSeq(fs, path)

\* Mutant: a failed download is attempted again.
AfterDownloadRetry(download_ok) == IF download_ok THEN "apply" ELSE "download"
\* Mutant: the result of download_image is not looked at.
AfterDownloadIgnored(download_ok) == "apply"
\* `if download_ok:` (line 191): where main goes next.
AfterDownload(download_ok) == IF download_ok THEN "apply" ELSE "done"

\* Mutant: the result of set_gnome_wallpaper is not looked at.
AfterSetWallpaperIgnored(set_ok) == "record"
\* `if set_ok:` (line 199): where main goes next.
AfterSetWallpaper(set_ok) == IF set_ok THEN "record" ELSE "done"

\* Mutant: the image's reported date is recorded instead of today's.
DateToRecordImageDate(t, info) == info.date
\* The value main passes to set_setting("State", "last_update_date", ...), line 203.
DateToRecord(t, info) == t

\* Mutant: a write that did not take effect is tried again.
AfterUpdateStateRetry(written) == IF written THEN "keep" ELSE "record"
\* After set_setting returned (lines 202-205): its result is dropped, main goes on.
AfterUpdateState(written) == "keep"

\* Mutant: the configured keep_history is not read, the default is passed.
KeepCountDefaultOnly(cfg) == KeepDefault
\* config.getint("Settings", "keep_history", fallback=7), lines 205-207, for a
\* value that is absent or an integer.
KeepCount(cfg) ==
    IF cfg.keep_history.kind = "absent" THEN KeepDefault ELSE cfg.keep_history.val

\* Mutant: the notification is not in a try/except of its own.
VerdictAfterNotificationUnguarded(res) == res # "raise"
\* Lines 211-222: whatever send_notification does, returns or raises, the
\* inner except swallows it and line 222 sets success = True.
VerdictAfterNotification(res) == TRUE

\* What --internal-set-config SECTION KEY VALUE can name: an option of the
\* model with a new raw value, or an option the model does not hold.
SetRequests ==
    {[field |-> "enabled", value |-> v] : v \in EnabledValues \ {"absent"}}
        \cup {[field |-> "last_update_date", value |-> d] : d \in DateValues}
        \cup {[field |-> "keep_history", value |-> k] : k \in KeepValues \ {NoConfig.keep_history}}
        \cup {[field |-> "other", value |-> 0]}

\* set_setting(section, key, value) on the configuration file.
set_setting(st, req) ==
    IF req.field = "other" THEN st ELSE [st EXCEPT ![req.field] = req.value]

\* The except clause of the headless block, lines 233-238.
Except ==
    /\ pc' = "done"
    /\ success' = FALSE

(***************************************************************************)
(* State after construction: a configuration file as the installer (or a   *)
(* hand edit) may have left it, an empty wallpaper directory, and no       *)
(* invocation running.                                                     *)
(***************************************************************************)
Init ==
    /\ store \in [enabled : EnabledValues, last_update_date : DateValues,
                   keep_history : KeepValues]
    /\ files = <<>>
    /\ today \in Days
    /\ mode = "none"
    /\ argv = NoArgs
    /\ exit_code = NoExit
    /\ pc = "idle"
    /\ config = NoConfig
    /\ bing_info = NoneInfo
    /\ today_str = NoDate
    /\ save_path = NoPath
    /\ keep_count = 0
    /\ success = FALSE
    /\ calls = <<>>
    /\ applied = NoPath
    /\ crossed = FALSE
    /\ prev = NoPrev

(***************************************************************************)
(* An invocation begins, line 74: args = parse_args().  Any combination of *)
(* the four options can be on the command line.                            *)
(***************************************************************************)
ParseArguments ==
    /\ pc = "idle"
    /\ pc' = "dispatch"
    /\ argv' \in ArgSets
    /\ mode' = "none"
    /\ exit_code' = NoExit
    /\ UNCHANGED <<env, locals, trace>>

(***************************************************************************)
(* The headless run, lines 115-242.                                        *)
(***************************************************************************)
\* Lines 115-133: the headless branch is taken, the core modules are imported
\* (an ImportError returns 1 at once), success = False.
StartHeadless ==
    /\ pc = "dispatch"
    /\ Dispatch(ParseArgs(argv)) = "headless"
    /\ \E imported \in BOOLEAN : pc' = IF imported THEN "load" ELSE "done"
    /\ mode' = "headless"
    /\ argv' = NoArgs
    /\ crossed' = FALSE
    /\ success' = FALSE
    /\ UNCHANGED <<env, exit_code, config, bing_info, today_str, save_path, keep_count,
                   calls, applied, prev>>

\* Line 136: config = core_config.load_config().
LoadConfig ==
    /\ pc = "load"
    /\ \E res \in {"ok", "raise"} :
          /\ calls' = Append(calls, Call("load_config", res))
          /\ IF res = "ok"
             THEN /\ config' = store
                  /\ pc' = "enabled"
                  /\ UNCHANGED success
             ELSE /\ Except
                  /\ UNCHANGED config
    /\ UNCHANGED <<env, mode, argv, exit_code, bing_info, today_str, save_path, keep_count,
                   applied, crossed, prev>>

\* Lines 137-141 and 229-231: the enabled gate.
CheckEnabled ==
    /\ pc = "enabled"
    /\ IF EnabledRaises(config)
       THEN Except
       ELSE IF EnabledIsTrue(config)
       THEN /\ pc' = "fetch"
            /\ UNCHANGED success
       ELSE /\ pc' = "done"
            /\ success' = TRUE
    /\ UNCHANGED <<env, mode, argv, exit_code, config, bing_info, today_str, save_path,
                   keep_count, trace>>

\* Lines 145-150 and 227-228: fetch the metadata and validate it.
FetchBingInfo ==
    /\ pc = "fetch"
    /\ \/ /\ calls' = Append(calls, Call("fetch_bing_wallpaper_info", "raise"))
          /\ Except
          /\ UNCHANGED bing_info
       \/ \E info \in BingInfos :
            /\ calls' = Append(calls, Call("fetch_bing_wallpaper_info",
                                           IF info.some THEN "ok" ELSE "fail"))
            /\ bing_info' = info
            /\ pc' = IF BingInfoValid(info) THEN "fresh" ELSE "done"
            /\ UNCHANGED success
    /\ UNCHANGED <<env, mode, argv, exit_code, config, today_str, save_path, keep_count,
                   applied, crossed, prev>>

\* Lines 152-165: today's date is read and compared with the loaded last_update_date.
CheckAlreadyUpdated ==
    /\ pc = "fresh"
    /\ today_str' = today
    /\ IF AlreadyUpdatedToday(config.last_update_date, today)
       THEN /\ pc' = "done"
            /\ success' = TRUE
       ELSE /\ pc' = "ensure"
            /\ UNCHANGED success
    /\ UNCHANGED <<env, mode, argv, exit_code, config, bing_info, save_path, keep_count, trace>>

\* Lines 167-170: the wallpaper directory; a falsy result raises RuntimeError.
EnsureWallpaperDir ==
    /\ pc = "ensure"
    /\ \E res \in Outcomes :
          /\ calls' = Append(calls, Call("ensure_wallpaper_dir", res))
          /\ IF res = "ok"
             THEN /\ pc' = "path"
                  /\ UNCHANGED success
             ELSE Except
    /\ UNCHANGED <<env, mode, argv, exit_code, config, bing_info, today_str, save_path,
                   keep_count, applied, crossed, prev>>

\* Lines 172-186: the target path and the existence check.  bing_info["date"]
\* raises KeyError when the metadata has no date.
ResolveSavePath ==
    /\ pc = "path"
    /\ IF bing_info.date = NoDate \/ bing_info.full_url = NoUrl
       THEN /\ Except
            /\ UNCHANGED <<save_path, calls>>
       ELSE /\ save_path' = get_bing_filename(bing_info.date, bing_info.full_url)
            /\ calls' = Append(calls, Call("is_file",
                                           IF IsFile(files, save_path') THEN "ok" ELSE "fail"))
            /\ pc' = IF IsFile(files, save_path') THEN "apply" ELSE "download"
            /\ UNCHANGED success
    /\ UNCHANGED <<env, mode, argv, exit_code, config, bing_info, today_str, keep_count,
                   applied, crossed, prev>>

\* Lines 187-194 and 225-226: download to save_path.  A successful download
\* leaves the file in the directory, newest; a failed one leaves no file.
DownloadImage ==
    /\ pc = "download"
    /\ \E res \in Outcomes :
          /\ calls' = Append(calls, Call("download_image", res))
          /\ files' = download_image(files, save_path, res)
          /\ IF res = "raise"
             THEN Except
             ELSE /\ pc' = AfterDownload(res = "ok")
                  /\ UNCHANGED success
    /\ UNCHANGED <<store, today, mode, argv, exit_code, config, bing_info, today_str, save_path,
                   keep_count, applied, crossed, prev>>

\* Lines 196-200 and 223-224: set the wallpaper to save_path.
SetWallpaper ==
    /\ pc = "apply"
    /\ \E res \in Outcomes :
          /\ calls' = Append(calls, Call("set_gnome_wallpaper", res))
          /\ applied' = save_path
          /\ IF res = "raise"
             THEN Except
             ELSE /\ pc' = AfterSetWallpaper(res = "ok")
                  /\ UNCHANGED success
    /\ UNCHANGED <<env, mode, argv, exit_code, config, bing_info, today_str, save_path,
                   keep_count, crossed, prev>>

\* Lines 202-204: record today's date; the result of set_setting is not looked at.
UpdateState ==
    /\ pc = "record"
    /\ \E res \in Outcomes :
          /\ calls' = Append(calls, Call("set_setting", res))
          /\ store' = IF res = "ok"
                      THEN set_setting(store, [field |-> "last_update_date",
                                               value |-> DateToRecord(today_str, bing_info)])
                      ELSE store
          /\ IF res = "raise"
             THEN Except
             ELSE /\ pc' = AfterUpdateState(res = "ok")
                  /\ UNCHANGED success
    /\ UNCHANGED <<files, today, mode, argv, exit_code, config, bing_info, today_str, save_path,
                   keep_count, applied, crossed, prev>>

\* Lines 205-207: keep_count = config.getint("Settings", "keep_history", fallback=7);
\* a value that is no integer raises ValueError.
ReadKeepCount ==
    /\ pc = "keep"
    /\ IF config.keep_history.kind = "invalid"
       THEN /\ Except
            /\ UNCHANGED keep_count
       ELSE /\ keep_count' = KeepCount(config)
            /\ pc' = "cleanup"
            /\ UNCHANGED success
    /\ UNCHANGED <<env, mode, argv, exit_code, config, bing_info, today_str, save_path, trace>>

\* Line 208: cleanup_wallpaper_history(keep=keep_count).  A clean run deletes
\* every victim; one that fails or raises has deleted some of them, not all.
CleanupHistory ==
    /\ pc = "cleanup"
    /\ \E res \in Outcomes :
          /\ calls' = Append(calls, Call("cleanup_wallpaper_history", res))
          /\ IF res = "ok"
             THEN files' = Without(files, PruneVictims(files, keep_count))
             ELSE \E D \in SUBSET PruneVictims(files, keep_count) :
                    /\ D # PruneVictims(files, keep_count) \/ D = {}
                    /\ files' = Without(files, D)
          /\ IF res = "raise"
             THEN Except
             ELSE /\ pc' = "notify"
                  /\ UNCHANGED success
    /\ UNCHANGED <<store, today, mode, argv, exit_code, config, bing_info, today_str, save_path,
                   keep_count, applied, crossed, prev>>

\* Lines 210-222: the notification, in its own try/except, then success = True.
SendNotification ==
    /\ pc = "notify"
    /\ \E res \in Outcomes :
          /\ calls' = Append(calls, Call("send_notification", res))
          /\ success' = VerdictAfterNotification(res)
    /\ pc' = "done"
    /\ UNCHANGED <<env, mode, argv, exit_code, config, bing_info, today_str, save_path,
                   keep_count, applied, crossed, prev>>

\* Lines 241-242: return 0 if success else 1.  The locals of main are gone.
ReturnHeadless ==
    /\ pc = "done"
    /\ pc' = "idle"
    /\ exit_code' = IF success THEN 0 ELSE 1
    /\ prev' = IF crossed
               THEN NoPrev
               ELSE [valid |-> TRUE, enabled |-> config.enabled, bing_info |-> bing_info,
                     downloads |-> Count(calls, "download_image"),
                     applies |-> Count(calls, "set_gnome_wallpaper"),
                     recorded |-> CalledWith(calls, "set_setting", "ok"),
                     fresh |-> success /\ today_str # NoDate
                                 /\ ~Called(calls, "ensure_wallpaper_dir"),
                     success |-> success]
    /\ config' = NoConfig
    /\ bing_info' = NoneInfo
    /\ today_str' = NoDate
    /\ save_path' = NoPath
    /\ keep_count' = 0
    /\ success' = FALSE
    /\ calls' = <<>>
    /\ applied' = NoPath
    /\ crossed' = FALSE
    /\ UNCHANGED <<env, mode, argv>>

\* The wall clock moves on, at any moment.
AdvanceDay ==
    /\ today < MaxDay
    /\ today' = today + 1
    /\ crossed' = (pc \notin {"idle", "dispatch"})
    /\ prev' = NoPrev
    /\ UNCHANGED <<store, files, mode, argv, exit_code, pc, locals, calls, applied>>

Headless ==
    \/ StartHeadless
    \/ LoadConfig
    \/ CheckEnabled
    \/ FetchBingInfo
    \/ CheckAlreadyUpdated
    \/ EnsureWallpaperDir
    \/ ResolveSavePath
    \/ DownloadImage
    \/ SetWallpaper
    \/ UpdateState
    \/ ReadKeepCount
    \/ CleanupHistory
    \/ SendNotification
    \/ ReturnHeadless

(***************************************************************************)
(* The other modes of main.  Each is one invocation from start to return.  *)
(***************************************************************************)
\* Lines 77-103: --internal-set-config SECTION KEY VALUE.  Any of the three
\* calls may return falsy or raise; each such failure returns 1 and writes nothing.
InternalSetConfig ==
    /\ pc = "dispatch"
    /\ Dispatch(ParseArgs(argv)) = "internal_set_config"
    /\ \/ \E req \in SetRequests :
            /\ store' = set_setting(store, req)
            /\ exit_code' = 0
       \/ \E failed \in {"ensure_config_dir_exists", "create_default_config_if_missing",
                          "set_setting"} :
            /\ store' = store
            /\ exit_code' = 1
    /\ mode' = "internal_set_config"
    /\ pc' = "idle"
    /\ prev' = NoPrev
    /\ UNCHANGED <<files, today, argv, locals, calls, applied, crossed>>

\* Lines 106-112: --version prints and returns 0.
ShowVersion ==
    /\ pc = "dispatch"
    /\ Dispatch(ParseArgs(argv)) = "version"
    /\ mode' = "version"
    /\ pc' = "idle"
    /\ exit_code' = 0
    /\ prev' = NoPrev
    /\ UNCHANGED <<env, argv, locals, calls, applied, crossed>>

\* Lines 245-268: the GUI; it returns what app.exec() returns, or 1.
LaunchGui ==
    /\ pc = "dispatch"
    /\ Dispatch(ParseArgs(argv)) = "gui"
    /\ mode' = "gui"
    /\ pc' = "idle"
    /\ exit_code' \in {0, 1}
    /\ prev' = NoPrev
    /\ UNCHANGED <<env, argv, locals, calls, applied, crossed>>

\* An invocation with --headless and neither --version nor --internal-set-config.
ParseArgumentsHeadless ==
    /\ ParseArguments
    /\ Dispatch(ParseArgs(argv')) = "headless"

\* Headless runs only, one after the other, under a clock that never goes back.
NextHeadless == ParseArgumentsHeadless \/ Headless \/ AdvanceDay

SpecHeadless == Init /\ [][NextHeadless]_vars

\* Every invocation of main, in any order.
Next ==
    \/ ParseArguments
    \/ Headless
    \/ AdvanceDay
    \/ InternalSetConfig
    \/ ShowVersion
    \/ LaunchGui

Spec == Init /\ [][Next]_vars

(***************************************************************************)
(* Properties.  While a headless run is under way or has just finished     *)
(* (pc past "dispatch"), config is the configuration the run loaded: the   *)
(* store                                                                   *)
(* is written by no one else during the run, so store.last_update_date =   *)
(* config.last_update_date says the run has left the stored date as it     *)
(* found it.                                                               *)
(***************************************************************************)
Loaded == pc # "idle" /\ CalledWith(calls, "load_config", "ok")

LastCall == calls[Len(calls)]

ApplyFailed ==
    \E i \in DOMAIN calls : calls[i].fn = "set_gnome_wallpaper" /\ calls[i].res # "ok"

ApplySucceeded == CalledWith(calls, "set_gnome_wallpaper", "ok")

NoLaterStage(stages) == \A fn \in stages : ~Called(calls, fn)

\* C2 (no false completion): when set_gnome_wallpaper reports failure, the run
\* is over with verdict failure, last_update_date is as the run found it, and
\* neither set_setting nor cleanup_wallpaper_history nor send_notification was called.
C2_NoFalseCompletion ==
    ApplyFailed =>
        /\ pc = "done"
        /\ ~success
        /\ store.last_update_date = config.last_update_date
        /\ NoLaterStage({"set_setting", "cleanup_wallpaper_history", "send_notification"})

C2_Witness == pc = "done" /\ CalledWith(calls, "set_gnome_wallpaper", "fail")

\* C3 (disabled short-circuit): a run that loaded enabled=false, or no enabled
\* option at all, makes no call after load_config and ends with verdict success.
C3_DisabledShortCircuit ==
    (Loaded /\ config.enabled \in {"false", "absent"}) =>
        /\ calls = <<Call("load_config", "ok")>>
        /\ pc \in {"enabled", "done"}
        /\ pc = "done" => success
        /\ store.last_update_date = config.last_update_date

C3_Witness == Loaded /\ config.enabled = "absent" /\ pc = "done" /\ success

\* C4 (failure before apply aborts): when the fetch raised, returned nothing or
\* returned a result without full_url, or the directory could not be ensured,
\* or the download failed, the run is over with verdict failure, the failed
\* call is the last one it made, and last_update_date is as the run found it.
FetchFailed ==
    /\ Called(calls, "fetch_bing_wallpaper_info")
    /\ ~bing_info.some \/ bing_info.full_url = NoUrl

EnsureDirFailed ==
    \E i \in DOMAIN calls : calls[i].fn = "ensure_wallpaper_dir" /\ calls[i].res # "ok"

DownloadFailed ==
    \E i \in DOMAIN calls : calls[i].fn = "download_image" /\ calls[i].res # "ok"

C4_FailureBeforeApplyAborts ==
    /\ FetchFailed =>
          /\ pc = "done" /\ ~success
          /\ LastCall.fn = "fetch_bing_wallpaper_info"
    /\ EnsureDirFailed =>
          /\ pc = "done" /\ ~success
          /\ LastCall.fn = "ensure_wallpaper_dir"
    /\ DownloadFailed =>
          /\ pc = "done" /\ ~success
          /\ LastCall.fn = "download_image"
    /\ (FetchFailed \/ EnsureDirFailed \/ DownloadFailed) =>
          /\ NoLaterStage({"set_gnome_wallpaper", "set_setting",
                           "cleanup_wallpaper_history", "send_notification"})
          /\ store.last_update_date = config.last_update_date

C4_Witness == pc = "done" /\ CalledWith(calls, "download_image", "fail")

\* C5 (reuse): main is about to download only when no file is at save_path;
\* a run that found the file there calls download_image not at all, and the
\* path given to set_gnome_wallpaper is save_path, the name derived from the
\* fetched (date, full_url), where a file is when the call is made.
C5_Reuse ==
    /\ pc = "download" => ~InSeq(files, save_path)
    /\ CalledWith(calls, "is_file", "ok") => ~Called(calls, "download_image")
    /\ pc = "apply" => InSeq(files, save_path)
    /\ Called(calls, "set_gnome_wallpaper") =>
          /\ applied = save_path
          /\ save_path = <<bing_info.date, bing_info.full_url>>

C5_Witness ==
    /\ CalledWith(calls, "is_file", "ok")
    /\ CalledWith(calls, "set_gnome_wallpaper", "ok")
    /\ applied = save_path

\* C6 (freshness no-op): a run that read today's date and found it equal to
\* the loaded last_update_date is over with verdict success, having called
\* nothing but load_config and the fetch.
FreshnessChecked == pc # "idle" /\ today_str # NoDate

C6_FreshnessNoOp ==
    (FreshnessChecked /\ config.last_update_date = today_str) =>
        /\ pc = "done"
        /\ success
        /\ calls = <<Call("load_config", "ok"), Call("fetch_bing_wallpaper_info", "ok")>>
        /\ store.last_update_date = config.last_update_date

C6_Witness ==
    /\ FreshnessChecked
    /\ config.last_update_date = today_str
    /\ config.enabled = "true"
    /\ pc = "done"
    /\ success

\* Two headless runs in succession on one day (SpecHeadless): the second has
\* finished, the first ran entirely on the same day (prev.valid), both read
\* enabled=true and both fetched the same valid metadata.
SecondRunOfDay ==
    /\ pc = "done"
    /\ ~crossed
    /\ prev.valid
    /\ prev.enabled = "true"
    /\ Loaded /\ config.enabled = "true"
    /\ bing_info.some /\ bing_info.full_url # NoUrl
    /\ prev.bing_info = bing_info

AtMostOneDownloadAndApply ==
    /\ prev.downloads + Count(calls, "download_image") <= 1
    /\ prev.applies + Count(calls, "set_gnome_wallpaper") <= 1

StoppedAtFreshness ==
    /\ success
    /\ today_str # NoDate
    /\ calls = <<Call("load_config", "ok"), Call("fetch_bing_wallpaper_info", "ok")>>

\* C1 as stated (idempotence): any two such runs make together at most one
\* download and one apply call, and the second stops at the freshness check
\* with verdict success.
C1_Original == SecondRunOfDay => (AtMostOneDownloadAndApply /\ StoppedAtFreshness)

\* C1 as amended: the same, for two runs the first of which left the day
\* recorded: its write of last_update_date took effect, or it stopped at the
\* freshness check itself.
C1_Idempotence ==
    (SecondRunOfDay /\ (prev.recorded \/ prev.fresh)) =>
        (AtMostOneDownloadAndApply /\ StoppedAtFreshness)

C1_Witness ==
    /\ SecondRunOfDay
    /\ prev.recorded
    /\ prev.downloads = 1
    /\ prev.applies = 1
    /\ StoppedAtFreshness

\* C7 as stated: under a clock that never goes back, from any stored value,
\* no step changes last_update_date to an earlier date, and no run calls
\* set_setting twice.
C7_Original ==
    [][/\ store'.last_update_date >= store.last_update_date
       /\ Count(calls', "set_setting") <= 1]_vars

\* The stored date is not ahead of the clock, and neither is it ahead of the
\* date a run under way has read as today.  It holds initially exactly when
\* the stored value is empty or not later than the wall clock's date.
NotAhead ==
    /\ store.last_update_date <= today
    /\ (pc # "idle" /\ today_str # NoDate) =>
          /\ store.last_update_date <= today_str
          /\ today_str <= today

\* C7 as amended: the same, from a stored value that is empty or not later
\* than the wall clock's date: that condition is kept by every step, and
\* under it no step changes last_update_date to an earlier date; no run
\* calls set_setting twice.
C7_NeverRegresses ==
    [][/\ NotAhead => NotAhead'
       /\ NotAhead => store'.last_update_date >= store.last_update_date
       /\ Count(calls', "set_setting") <= 1]_vars

\* A run has moved last_update_date from an earlier day to today.
C7_Witness ==
    /\ NotAhead
    /\ pc = "keep"
    /\ CalledWith(calls, "set_setting", "ok")
    /\ config.last_update_date # NoDate
    /\ config.last_update_date < store.last_update_date
    /\ store.last_update_date = today_str

StateWriteFailed ==
    \E i \in DOMAIN calls : calls[i].fn = "set_setting" /\ calls[i].res # "ok"

PruneFailed ==
    \E i \in DOMAIN calls : calls[i].fn = "cleanup_wallpaper_history" /\ calls[i].res # "ok"

\* C8: a run whose apply succeeded and whose set_setting failed ends with
\* verdict success.
C8_WriteFailureKeepsSuccess ==
    (pc = "done" /\ ApplySucceeded /\ StateWriteFailed) => success

\* C9: a run whose apply succeeded has called cleanup_wallpaper_history by
\* the time it ends.
C9_PruneAlwaysAttempted ==
    (pc = "done" /\ ApplySucceeded) => Called(calls, "cleanup_wallpaper_history")

\* C10: a run whose apply succeeded and whose pruning failed, by result or by
\* raising, ends with verdict success.
C10_PruneFailureKeepsSuccess ==
    (pc = "done" /\ ApplySucceeded /\ PruneFailed) => success

\* The position of the first call of fn in the run's calls, 0 when there is none.
FirstIndex(fn) ==
    IF Called(calls, fn) THEN CHOOSE i \in DOMAIN calls :
                                  /\ calls[i].fn = fn
                                  /\ \A j \in 1..(i - 1) : calls[j].fn # fn
    ELSE 0

\* C11 (notification never affects the verdict): a run that called
\* send_notification ends with verdict success whether the call returned
\* truthy, returned falsy or raised; the call is the last one of the run and
\* comes after a successful apply, the state write and the pruning.
C11_NotificationNeverAffectsVerdict ==
    Called(calls, "send_notification") =>
        /\ pc = "done"
        /\ success
        /\ LastCall.fn = "send_notification"
        /\ Count(calls, "send_notification") = 1
        /\ ApplySucceeded
        /\ 0 < FirstIndex("set_setting")
        /\ FirstIndex("set_setting") < FirstIndex("cleanup_wallpaper_history")
        /\ FirstIndex("cleanup_wallpaper_history") < FirstIndex("send_notification")

C11_Witness ==
    /\ pc = "done"
    /\ CalledWith(calls, "send_notification", "raise")
    /\ success

\* C12 (the idempotence key is the wall-clock date): the date a run reads as
\* today is the wall clock's (they differ only when the clock moved on during
\* the run); the run stops at the freshness check exactly when the loaded
\* last_update_date equals that date; and a write that took effect stored
\* that date.  The fetched image's date appears in none of the three, so runs
\* that differ only in it decide and write alike.
C12_KeyIsWallClockDate ==
    /\ (FreshnessChecked /\ ~crossed) => today_str = today
    /\ FreshnessChecked =>
          ((config.last_update_date = today_str)
             <=> (pc = "done" /\ success /\ ~Called(calls, "ensure_wallpaper_dir")))
    /\ (pc # "idle" /\ CalledWith(calls, "set_setting", "ok")) =>
          store.last_update_date = today_str

\* A run whose image is dated another day than today has recorded today.
C12_Witness ==
    /\ pc = "keep"
    /\ CalledWith(calls, "set_setting", "ok")
    /\ bing_info.date # today_str
    /\ store.last_update_date = today_str
    /\ ~crossed

\* The keep_history the run was configured with: the stored integer, 7 when absent.
ConfiguredKeep ==
    IF config.keep_history.kind = "absent" THEN KeepDefault ELSE config.keep_history.val

PrunedCleanly == pc # "idle" /\ CalledWith(calls, "cleanup_wallpaper_history", "ok")

\* C13 as stated (retention bound): once a run's pruning has run without
\* failure, the directory holds no more than keep_history files, whatever
\* keep_history is.
C13_Original == PrunedCleanly => Len(files) <= ConfiguredKeep

\* C13 as amended: the same for keep_history >= 1; with keep_history <= 0
\* the pruning deletes nothing.
C13_RetentionBound ==
    (PrunedCleanly /\ ConfiguredKeep >= 1) => Len(files) <= ConfiguredKeep

\* A run with keep_history = 1 downloaded a second file, after the run before
\* it had downloaded one of another date, and its pruning left only the new one.
C13_Witness ==
    /\ PrunedCleanly
    /\ ConfiguredKeep = 1
    /\ CalledWith(calls, "download_image", "ok")
    /\ prev.valid /\ prev.downloads = 1 /\ prev.applies = 1
    /\ prev.bing_info.date # bing_info.date
    /\ files = <<save_path>>

\* C14 (atomicity of download): after a failed download_image the run is
\* over with verdict failure and no file is at save_path; a file appears in
\* the directory only by a download_image that succeeded, at that run's save_path.
C14_DownloadAtomicity ==
    [][/\ DownloadFailed' => (pc' = "done" /\ ~success' /\ ~InSeq(files', save_path'))
       /\ \A f \in Filenames :
             (InSeq(files', f) /\ ~InSeq(files, f)) =>
                 /\ pc = "download"
                 /\ calls' = Append(calls, Call("download_image", "ok"))
                 /\ f = save_path]_vars

\* A download raised while the directory held an earlier file; the target is absent.
C14_Witness ==
    /\ pc = "done"
    /\ CalledWith(calls, "download_image", "raise")
    /\ files # <<>>
    /\ ~InSeq(files, save_path)

\* C15 as stated: of all entry points, only a headless run changes the stored
\* last_update_date, and only after its apply step succeeded.
C15_Original ==
    [][store'.last_update_date # store.last_update_date =>
           (mode = "headless" /\ pc = "record" /\ ApplySucceeded)]_vars

\* C15 as amended: the stored last_update_date changes only in a headless run
\* after its apply step succeeded, or in an --internal-set-config invocation
\* that returns 0; --version and the GUI launch never change it.
C15_OnlyPipelineOrSetter ==
    [][store'.last_update_date # store.last_update_date =>
           \/ mode = "headless" /\ pc = "record" /\ ApplySucceeded
           \/ pc = "dispatch" /\ mode' = "internal_set_config" /\ exit_code' = 0]_vars

\* A headless run ended with success having replaced the date it had loaded.
C15_Witness ==
    /\ mode = "headless" /\ pc = "done" /\ success
    /\ ApplySucceeded
    /\ store.last_update_date # config.last_update_date

\* The place of each call in the pipeline of lines 136-220.
StageRank(fn) ==
    CASE fn = "load_config" -> 1
      [] fn = "fetch_bing_wallpaper_info" -> 2
      [] fn = "ensure_wallpaper_dir" -> 3
      [] fn = "is_file" -> 4
      [] fn = "download_image" -> 5
      [] fn = "set_gnome_wallpaper" -> 6
      [] fn = "set_setting" -> 7
      [] fn = "cleanup_wallpaper_history" -> 8
      [] fn = "send_notification" -> 9

\* C16 (single attempt per run): a run's calls begin with load_config and come
\* in strictly increasing pipeline order, so each is made at most once; a call
\* that raised is the run's last, a stage that reported failure is followed by
\* no call (only a falsy result of set_setting or of cleanup_wallpaper_history
\* is passed over, and the is_file test selects a branch); the date is read for
\* the freshness check after a successful fetch and before the directory is
\* touched; the apply step follows either a reuse or a successful download.
C16_SingleAttemptInOrder ==
    /\ calls # <<>> => calls[1].fn = "load_config"
    /\ \A i \in 1..(Len(calls) - 1) : StageRank(calls[i].fn) < StageRank(calls[i + 1].fn)
    /\ \A i \in DOMAIN calls :
          /\ calls[i].res = "raise" => i = Len(calls)
          /\ (calls[i].res = "fail" /\ calls[i].fn \notin {"is_file", "set_setting", "cleanup_wallpaper_history"})
                => i = Len(calls)
    /\ (pc # "idle" /\ today_str # NoDate) => CalledWith(calls, "fetch_bing_wallpaper_info", "ok")
    /\ Called(calls, "ensure_wallpaper_dir") => today_str # NoDate
    /\ Called(calls, "set_gnome_wallpaper") =>
          (CalledWith(calls, "is_file", "ok") /\ ~Called(calls, "download_image"))
            \/ (CalledWith(calls, "is_file", "fail") /\ CalledWith(calls, "download_image", "ok"))

\* A run that went through every stage, download included.
C16_Witness == pc = "done" /\ Len(calls) = 9 /\ calls[9].fn = "send_notification"

\* C17 (the applied wallpaper survives pruning): after a run applied an image
\* and pruned with keep_history >= 1, the file it set as the wallpaper is
\* still in the directory.
C17_AppliedSurvivesPruning ==
    (PrunedCleanly /\ ApplySucceeded /\ keep_count >= 1) => InSeq(files, applied)

\* C18 (a failure verdict implies unchanged state): when a headless run ends
\* with verdict failure, the stored last_update_date is the one the run loaded.
C18_FailureLeavesStateUnchanged ==
    (Loaded /\ pc = "done" /\ ~success) =>
        store.last_update_date = config.last_update_date

\* A run with enabled=true that loaded a last_update_date equal to today's date.
AlreadyRecordedDay ==
    /\ Loaded /\ ~crossed
    /\ config.enabled = "true"
    /\ config.last_update_date = today

\* C19 (the freshness check is reached only after a successful fetch): the
\* date is read for the freshness check only after a fetch that returned
\* metadata with full_url; on a day already recorded, a run with enabled=true
\* that ends with success has fetched first, and one whose fetch failed,
\* raised or lacked full_url ends with verdict failure, the fetch its last
\* call, no freshness check, no download, no apply, the state as loaded.
C19_FreshnessAfterFetch ==
    /\ FreshnessChecked =>
          /\ CalledWith(calls, "fetch_bing_wallpaper_info", "ok")
          /\ bing_info.some /\ bing_info.full_url # NoUrl
    /\ (AlreadyRecordedDay /\ pc = "done" /\ success) =>
          CalledWith(calls, "fetch_bing_wallpaper_info", "ok")
    /\ (AlreadyRecordedDay /\ FetchFailed) =>
          /\ pc = "done" /\ ~success
          /\ LastCall.fn = "fetch_bing_wallpaper_info"
          /\ today_str = NoDate
          /\ NoLaterStage({"download_image", "set_gnome_wallpaper", "set_setting"})
          /\ store.last_update_date = config.last_update_date

\* On a day already recorded the fetch returned metadata without full_url.
C19_Witness ==
    /\ AlreadyRecordedDay /\ pc = "done" /\ ~success
    /\ bing_info.some /\ bing_info.full_url = NoUrl
    /\ store.last_update_date = today

\* C20 (mode dispatch is exclusive with a fixed precedence): the step that
\* leaves the dispatch handles exactly one mode: internal-set-config when
\* --internal-set-config was given, else version when --version was given,
\* else headless when --headless was given, else the GUI, whether or not
\* --gui was given; the headless pipeline is entered in the headless mode
\* only, the other modes return at once.
C20_DispatchPrecedence ==
    [][(pc = "dispatch" /\ pc' # "dispatch") =>
           /\ mode' \in {"internal_set_config", "version", "headless", "gui"}
           /\ (mode' = "internal_set_config") <=> argv.internal_set_config
           /\ (mode' = "version") <=> (argv.version /\ ~argv.internal_set_config)
           /\ (mode' = "headless") <=>
                 (argv.headless /\ ~argv.version /\ ~argv.internal_set_config)
           /\ (mode' = "gui") <=>
                 (~argv.headless /\ ~argv.version /\ ~argv.internal_set_config)
           /\ (pc' # "idle") <=> (mode' = "headless")
           /\ mode' # "headless" => UNCHANGED <<files, locals, calls, applied>>]_vars

\* --version was given with --headless and --gui, and only the version mode ran.
C20_Witness ==
    /\ mode = "version" /\ pc = "idle" /\ exit_code = 0
    /\ argv.version /\ argv.headless /\ argv.gui /\ ~argv.internal_set_config
    /\ calls = <<>>

====
